---- MODULE Spec2Model ----
(***************************************************************************)
(* TD3_Bonus_ADD_Trainer (rlkit/torch/td3/td3_bonus_add.py) as a state     *)
(* machine: construction, train_from_torch, end_epoch, get_diagnostics.    *)
(*                                                                         *)
(* Abstractions.                                                           *)
(*  - A tensor is one batch element (batch_size = 1), so mean(x) = x.      *)
(*  - A float is a record: a finite integer, an infinity or NaN, with the  *)
(*    IEEE rules for +, *, min and log (0 * inf = NaN, log 0 = -inf, ...). *)
(*  - A network's parameter vector is one integer weight and its output  *)
(*    is that weight, whatever its input.  An optimizer step moves the     *)
(*    weight by one unit, so that a read before the step and a read after  *)
(*    it differ.  The bonus network is never trained here; its raw output  *)
(*    on a given input is drawn by the environment.                        *)
(*  - A gradient buffer is the set of losses whose backward pass has       *)
(*    accumulated into it since it was last zeroed, each tagged with       *)
(*    whether it stems from the current call ("cur") or an earlier one.    *)
(***************************************************************************)
EXTENDS Integers, FiniteSets, Sequences, TLC

\* ---------------------------------------------------------------- bounds
\* train_from_torch calls per behaviour
MaxCalls == 4
\* policy_and_target_update_period is drawn from 1..MaxPeriod
MaxPeriod == 2
\* target-network weights of the target computation are drawn from 0..MaxVal
MaxVal == 2

\* ---------------------------------------------------------------- floats
Fin(n) == [kind |-> "fin", val |-> n]
NaN == [kind |-> "nan", val |-> 0]
PosInf == [kind |-> "inf", val |-> 1]
NegInf == [kind |-> "inf", val |-> -1]

IsFin(x) == x.kind = "fin"

Sgn(x) == IF x.val > 0 THEN 1 ELSE IF x.val < 0 THEN -1 ELSE 0

FAdd(a, b) ==
    IF a.kind = "nan" \/ b.kind = "nan" THEN NaN
    ELSE IF IsFin(a) /\ IsFin(b) THEN Fin(a.val + b.val)
    ELSE IF IsFin(a) THEN b
    ELSE IF IsFin(b) THEN a
    ELSE IF a.val = b.val THEN a ELSE NaN

FMul(a, b) ==
    IF a.kind = "nan" \/ b.kind = "nan" THEN NaN
    ELSE IF IsFin(a) /\ IsFin(b) THEN Fin(a.val * b.val)
    ELSE IF Sgn(a) * Sgn(b) = 0 THEN NaN
    ELSE [kind |-> "inf", val |-> Sgn(a) * Sgn(b)]

FNeg(a) == IF a.kind = "nan" THEN NaN ELSE [kind |-> a.kind, val |-> 0 - a.val]

FSub(a, b) == FAdd(a, FNeg(b))

\* torch.min of two tensors, elementwise: NaN propagates
FMin(a, b) ==
    IF a.kind = "nan" \/ b.kind = "nan" THEN NaN
    ELSE IF IsFin(a) /\ IsFin(b) THEN (IF a.val <= b.val THEN a ELSE b)
    ELSE IF IsFin(a) THEN (IF b.val < 0 THEN b ELSE a)
    ELSE IF IsFin(b) THEN (IF a.val < 0 THEN a ELSE b)
    ELSE IF a.val <= b.val THEN a ELSE b

\* the natural logarithm of a positive integer, rounded to the nearest integer
Ln(n) == IF n = 1 THEN 0 ELSE IF n <= 4 THEN 1 ELSE IF n <= 12 THEN 2 ELSE 3

\* torch.log: log 0 = -inf, log of a negative number = NaN
FLog(a) ==
    IF a.kind = "nan" THEN NaN
    ELSE IF a.kind = "inf" THEN (IF a.val > 0 THEN PosInf ELSE NaN)
    ELSE IF a.val < 0 THEN NaN
    ELSE IF a.val = 0 THEN NegInf
    ELSE Fin(Ln(a.val))

\* ---------------------------------------------------------------- inputs
None == "None"
\* a normalization statistic is either absent or a numpy array
NormParams == {None, "ndarray"}
\* raw outputs of the bonus network (a negative one and zero included)
BonusOuts == {-1, 0, 1, 2}
Rewards == {0, 1}
Terminals == {0, 1}
\* the batches and bonus outputs the trainer is stepped on: a reward of 1, a bonus
\* network output of 0 (whose logarithm is -inf) or 2
StepRewards == {1}
StepBonusOuts == {0, 2}
Betas == {0, 1, 2}
Discounts == {0, 1}
RewardScales == {1, 2}
\* tau in halves: 0, 1/2, 1
Taus == {0, 1, 2}
Nets == {"policy", "qf1", "qf2"}

VARIABLES
    phase,                          \* "new", "ready" or "raised" (__init__ raised)
    bonus_norm_param,               \* constructor argument: <<mean, std>>
    normalize, obs_mu, obs_std,
    use_bonus_critic, use_bonus_policy, use_log,
    beta, discount, reward_scale,
    policy_and_target_update_period, tau,
    policy, qf1, qf2,
    target_policy, target_qf1, target_qf2,
    qf1_optimizer, qf2_optimizer, policy_optimizer,  \* steps each has taken
    grad,                           \* the .grad buffer of each live network
    eval_statistics,
    n_train_steps_total,
    need_to_update_eval_statistics,
    calls,                          \* train_from_torch calls made so far
    fresh,                          \* no train_from_torch since construction / end_epoch
    last,                           \* what the most recent call did
    probe                           \* the inputs and result of a target computation

config == <<bonus_norm_param, use_bonus_critic, use_bonus_policy, use_log,
            beta, discount, reward_scale, policy_and_target_update_period, tau>>
norm == <<normalize, obs_mu, obs_std>>
live == <<policy, qf1, qf2>>
targets == <<target_policy, target_qf1, target_qf2>>
optimizers == <<qf1_optimizer, qf2_optimizer, policy_optimizer>>
trainer == <<live, targets, optimizers, grad, eval_statistics,
             n_train_steps_total, need_to_update_eval_statistics>>
vars == <<phase, config, norm, trainer, calls, fresh, last, probe>>

\* ---------------------------------------------------------- construction
NoCall == [op |-> "none", raised |-> FALSE, fired |-> FALSE, refreshed |-> FALSE,
           stepped |-> {}, at_step |-> [n \in Nets |-> {}], synced |-> {},
           written |-> {}, bn_actor |-> 0]
NoProbe == [done |-> FALSE, rewards |-> 0, terminals |-> 0, bn_critic |-> 0,
            q_target |-> Fin(0)]
NoStatistics == [k \in {} |-> Fin(0)]

\* the state every behaviour starts from, but for the constructor's arguments
Fields ==
    /\ normalize = FALSE /\ obs_mu = None /\ obs_std = None
    /\ policy = 0 /\ qf1 = 0 /\ qf2 = 0
    /\ target_policy = 0
    /\ qf1_optimizer = 0 /\ qf2_optimizer = 0 /\ policy_optimizer = 0
    /\ grad = [n \in Nets |-> {}]
    /\ eval_statistics = NoStatistics
    /\ n_train_steps_total = 0
    /\ need_to_update_eval_statistics = TRUE
    /\ calls = 0 /\ fresh = TRUE
    /\ last = NoCall /\ probe = NoProbe

Init ==
    /\ phase = "new"
    /\ bonus_norm_param \in NormParams \X NormParams
    /\ use_bonus_critic \in BOOLEAN
    /\ use_bonus_policy \in BOOLEAN
    /\ use_log \in BOOLEAN
    /\ beta = 1 /\ discount = 1 /\ reward_scale = 1
    /\ policy_and_target_update_period \in 1 .. MaxPeriod
    /\ tau \in Taus
    /\ target_qf1 = 0 /\ target_qf2 = 0
    /\ Fields

\* ptu.from_numpy: torch.from_numpy raises a TypeError on None
from_numpy(x) == IF x = None THEN "TypeError" ELSE "tensor"

\* __init__, lines 77-86: the unpacking of bonus_norm_param
Construct ==
    /\ phase = "new"
    /\ LET mu == bonus_norm_param[1]
           std == bonus_norm_param[2]
           norm_on == mu # None
       IN /\ normalize' = norm_on
          /\ IF norm_on
             THEN /\ obs_mu' = from_numpy(mu)
                  /\ obs_std' = (IF from_numpy(std) = "TypeError" THEN std ELSE from_numpy(std))
                  /\ phase' = (IF from_numpy(std) = "TypeError" THEN "raised" ELSE "ready")
             ELSE /\ obs_mu' = mu
                  /\ obs_std' = std
                  /\ phase' = "ready"
    /\ last' = [NoCall EXCEPT !.op = "__init__", !.raised = (phase' = "raised")]
    /\ UNCHANGED <<config, trainer, calls, fresh, probe>>

\* ------------------------------------------------------------- _get_bonus
\* raw is bonus_network(cat(obs, actions)), obs standardized when normalize is set
get_bonus(raw) == IF use_log THEN FLog(Fin(raw)) ELSE Fin(raw)

\* ---------------------------------------------------- the critic's target
\* QTarget with the bonus added after discounting and terminal masking
QTargetBonusOutside(bonus_on, rewards, terminals, target_q1_values, target_q2_values, critic_bonus) ==
    LET min_q == FMin(target_q1_values, target_q2_values)
        base == FAdd(FMul(Fin(reward_scale), Fin(rewards)),
                     FMul(FMul(FSub(Fin(1), Fin(terminals)), Fin(discount)), min_q))
    IN IF bonus_on THEN FAdd(base, FMul(Fin(beta), critic_bonus)) ELSE base

\* QTarget without the terminal mask
QTargetNoMask(bonus_on, rewards, terminals, target_q1_values, target_q2_values, critic_bonus) ==
    LET min_q == FMin(target_q1_values, target_q2_values)
        target_q_values ==
            IF bonus_on THEN FAdd(min_q, FMul(Fin(beta), critic_bonus)) ELSE min_q
    IN FAdd(FMul(Fin(reward_scale), Fin(rewards)), FMul(Fin(discount), target_q_values))

\* lines 155-164
QTarget(bonus_on, rewards, terminals, target_q1_values, target_q2_values, critic_bonus) ==
    LET min_q == FMin(target_q1_values, target_q2_values)
        target_q_values ==
            IF bonus_on THEN FAdd(min_q, FMul(Fin(beta), critic_bonus)) ELSE min_q
    IN FAdd(FMul(Fin(reward_scale), Fin(rewards)),
            FMul(FMul(FSub(Fin(1), Fin(terminals)), Fin(discount)), target_q_values))

\* a network's output is its weight
Forward(w) == Fin(w)

\* lines 144-164 on the trainer's target networks; the target policy's action and
\* the clipped smoothing noise of lines 144-151 only form the target critics' input
CriticTarget(rewards, terminals, bn_critic) ==
    QTarget(use_bonus_critic, rewards, terminals,
            Forward(target_qf1), Forward(target_qf2), get_bonus(bn_critic))

\* ------------------------------------------------- optimizers and autograd
\* the backward pass of a loss reaches the parameters its graph holds: q_target is
\* detached and the batch carries no gradient, so a critic loss reaches its own
\* critic; the actor loss is qf1(obs, policy(obs)) and reaches policy and qf1
Reach(loss) ==
    IF loss = "qf1_loss" THEN {"qf1"}
    ELSE IF loss = "qf2_loss" THEN {"qf2"}
    ELSE {"policy", "qf1"}

\* zero_grad left out
ZeroGradSkipped(net, g) == g

\* optimizer.zero_grad(): the buffers of the parameters the optimizer owns
ZeroGrad(net, g) == [g EXCEPT ![net] = {}]

\* loss.backward(): accumulates into every buffer the loss reaches
Backward(loss, g) ==
    [n \in Nets |-> IF n \in Reach(loss) THEN g[n] \cup {<<loss, "cur">>} ELSE g[n]]

\* what an earlier call left in the buffers, seen from a later call
Aged(g) == [n \in Nets |-> {<<t[1], "old">> : t \in g[n]}]

\* optimizer.step()
OptimizerStep(w) == w + 1

\* ptu.soft_update_from_to(source, target, tau), tau in halves
SoftUpdate(source, target) == (tau * source + (2 - tau) * target) \div 2

\* the period test on the counter after its increment
UpdateDueAfterIncrement ==
    (n_train_steps_total + 1) % policy_and_target_update_period = 0

\* line 186
UpdateDue == n_train_steps_total % policy_and_target_update_period = 0

\* a soft update that reads the weights the call started with
SyncSourceStale(stepped_w, entry_w) == entry_w

\* the live weights a soft update reads: lines 201-203 run after every step()
SyncSource(stepped_w, entry_w) == stepped_w

\* the flag left set by a refresh
FlagKeptSet == TRUE

\* line 206
FlagAfterRefresh == FALSE

\* ------------------------------------------------------------ diagnostics
\* create_stats_ordered_dict(name, data) of a one-element array
Stats(x) == [Mean |-> x, Std |-> (IF IsFin(x) THEN Fin(0) ELSE NaN), Max |-> x, Min |-> x]

\* dict.update
Update(old, new) ==
    [k \in DOMAIN old \cup DOMAIN new |-> IF k \in DOMAIN new THEN new[k] ELSE old[k]]

Square(x) == FMul(x, x)

\* lines 212-240, the entries written before the bonus entries
CoreKeys == {"QF1 Loss", "QF2 Loss", "Policy Loss", "Q1 Predictions", "Q2 Predictions",
             "Q Targets", "Bellman Errors 1", "Bellman Errors 2", "Policy Action"}

\* ------------------------------------------------------- train_from_torch
TrainStep ==
    /\ phase = "ready"
    /\ calls < MaxCalls
    /\ \E rewards \in StepRewards, terminals \in Terminals,
          bn_critic \in (IF use_bonus_critic THEN StepBonusOuts ELSE {0}),
          bn_actor \in (IF use_bonus_policy THEN StepBonusOuts ELSE {0}) :
        LET \* lines 144-172
            critic_bonus == get_bonus(bn_critic)
            q_target == CriticTarget(rewards, terminals, bn_critic)
            q1_pred == Forward(qf1)
            bellman_errors_1 == Square(FSub(q1_pred, q_target))
            qf1_loss == bellman_errors_1
            q2_pred == Forward(qf2)
            bellman_errors_2 == Square(FSub(q2_pred, q_target))
            qf2_loss == bellman_errors_2
            \* lines 177-183
            g0 == Aged(grad)
            g1 == Backward("qf1_loss", ZeroGrad("qf1", g0))
            qf1_new == OptimizerStep(qf1)
            g2 == Backward("qf2_loss", ZeroGrad("qf2", g1))
            qf2_new == OptimizerStep(qf2)
            \* lines 185-203
            due == UpdateDue
            policy_actions == Forward(policy)
            q_output == Forward(qf1_new)
            actor_bonus == get_bonus(bn_actor)
            policy_loss_due ==
                FNeg(IF use_bonus_policy
                     THEN FAdd(q_output, FMul(Fin(beta), actor_bonus))
                     ELSE q_output)
            g3 == IF due THEN Backward("policy_loss", ZeroGrad("policy", g2)) ELSE g2
            policy_new == IF due THEN OptimizerStep(policy) ELSE policy
            \* lines 205-251
            refresh == need_to_update_eval_statistics
            policy_loss == IF due THEN policy_loss_due ELSE FNeg(q_output)
            unbound == refresh /\ use_bonus_policy /\ ~due  \* actor_bonus at line 245
            core == [k \in CoreKeys |->
                       CASE k = "QF1 Loss" -> qf1_loss
                         [] k = "QF2 Loss" -> qf2_loss
                         [] k = "Policy Loss" -> policy_loss
                         [] k = "Q1 Predictions" -> Stats(q1_pred)
                         [] k = "Q2 Predictions" -> Stats(q2_pred)
                         [] k = "Q Targets" -> Stats(q_target)
                         [] k = "Bellman Errors 1" -> Stats(bellman_errors_1)
                         [] k = "Bellman Errors 2" -> Stats(bellman_errors_2)
                         [] OTHER -> Stats(policy_actions)]
            bonus_keys ==
                IF unbound THEN {}
                ELSE (IF use_bonus_policy THEN {"Actor Bonus"} ELSE {})
                     \cup (IF use_bonus_critic THEN {"Critic Bonus"} ELSE {})
            bonuses == [k \in bonus_keys |->
                          IF k = "Actor Bonus" THEN Stats(actor_bonus)
                          ELSE Stats(critic_bonus)]
            written == IF refresh THEN CoreKeys \cup bonus_keys ELSE {}
        IN  /\ qf1' = qf1_new
            /\ qf2' = qf2_new
            /\ qf1_optimizer' = qf1_optimizer + 1
            /\ qf2_optimizer' = qf2_optimizer + 1
            /\ policy' = policy_new
            /\ policy_optimizer' = (IF due THEN policy_optimizer + 1 ELSE policy_optimizer)
            /\ target_policy' =
                 (IF due THEN SoftUpdate(SyncSource(policy_new, policy), target_policy)
                  ELSE target_policy)
            /\ target_qf1' =
                 (IF due THEN SoftUpdate(SyncSource(qf1_new, qf1), target_qf1)
                  ELSE target_qf1)
            /\ target_qf2' =
                 (IF due THEN SoftUpdate(SyncSource(qf2_new, qf2), target_qf2)
                  ELSE target_qf2)
            /\ grad' = g3
            /\ need_to_update_eval_statistics' =
                 (IF refresh THEN FlagAfterRefresh ELSE need_to_update_eval_statistics)
            /\ eval_statistics' =
                 (IF refresh THEN Update(Update(eval_statistics, core), bonuses)
                  ELSE eval_statistics)
            \* line 252 is not reached when line 245 raises
            /\ n_train_steps_total' =
                 (IF unbound THEN n_train_steps_total ELSE n_train_steps_total + 1)
            /\ last' = [op |-> "train_from_torch", raised |-> unbound, fired |-> due,
                        refreshed |-> refresh,
                        stepped |-> {"qf1", "qf2"} \cup (IF due THEN {"policy"} ELSE {}),
                        at_step |-> [n \in Nets |->
                                       IF n = "qf1" THEN g1[n]
                                       ELSE IF n = "qf2" THEN g2[n]
                                       ELSE IF due THEN g3[n] ELSE {}],
                        synced |-> (IF due THEN {"target_policy", "target_qf1", "target_qf2"}
                                    ELSE {}),
                        written |-> written,
                        bn_actor |-> (IF refresh THEN bn_actor ELSE 0)]
    /\ calls' = calls + 1
    /\ fresh' = FALSE
    /\ UNCHANGED <<phase, config, norm, probe>>

\* lines 254-255
GetDiagnostics ==
    /\ phase = "ready"
    /\ last' = [NoCall EXCEPT !.op = "get_diagnostics"]
    /\ UNCHANGED <<phase, config, norm, trainer, calls, fresh, probe>>

\* lines 257-258
EndEpoch ==
    /\ phase = "ready"
    /\ need_to_update_eval_statistics' = TRUE
    /\ fresh' = TRUE
    /\ last' = [NoCall EXCEPT !.op = "end_epoch"]
    /\ UNCHANGED <<phase, config, norm, live, targets, optimizers, grad,
                   eval_statistics, n_train_steps_total, calls, probe>>

Next == Construct \/ TrainStep \/ GetDiagnostics \/ EndEpoch

Spec == Init /\ [][Next]_vars

\* ------------------------------------- the target computation on its own
\* a constructed trainer with any hyperparameters and any target critics
InitTarget ==
    /\ phase = "ready"
    /\ bonus_norm_param = <<None, None>>
    /\ use_bonus_critic \in BOOLEAN
    /\ use_bonus_policy = FALSE
    /\ use_log \in BOOLEAN
    /\ beta \in Betas /\ discount \in Discounts /\ reward_scale \in RewardScales
    /\ policy_and_target_update_period = 1
    /\ tau = 0
    /\ target_qf1 \in 0 .. MaxVal /\ target_qf2 \in 0 .. MaxVal
    /\ Fields

\* lines 144-164 of train_from_torch on one transition
TargetStep ==
    /\ phase = "ready"
    /\ \E rewards \in Rewards, terminals \in Terminals, bn_critic \in BonusOuts :
        probe' = [done |-> TRUE, rewards |-> rewards, terminals |-> terminals,
                  bn_critic |-> bn_critic,
                  q_target |-> CriticTarget(rewards, terminals, bn_critic)]
    /\ UNCHANGED <<phase, config, norm, trainer, calls, fresh, last>>

NextTarget == TargetStep

SpecTarget == InitTarget /\ [][NextTarget]_vars

\* ------------------------------------------------------------------ claims
IsTrainStep == calls' = calls + 1
AfterTrainStep == last.op = "train_from_torch"
AllTargets == {"target_policy", "target_qf1", "target_qf2"}

\* C1: the actor step and the soft update of the three target networks happen in
\* a train_from_torch call if and only if the step counter at entry satisfies
\* counter % period = 0; any other call leaves the policy, its optimizer and the
\* three target networks unchanged, also when it refreshes the diagnostics.
C1_DelayedUpdateIffDue ==
    [][IsTrainStep =>
         IF n_train_steps_total % policy_and_target_update_period = 0
         THEN /\ last'.fired
              /\ "policy" \in last'.stepped
              /\ policy_optimizer' = policy_optimizer + 1
              /\ policy' # policy
              /\ last'.synced = AllTargets
         ELSE /\ ~last'.fired
              /\ "policy" \notin last'.stepped
              /\ last'.synced = {}
              /\ UNCHANGED <<policy, policy_optimizer, targets>>]_vars

\* a call off the period that refreshed the diagnostics, after an actor step
C1_Witness ==
    /\ AfterTrainStep /\ ~last.fired /\ last.refreshed /\ ~last.raised
    /\ policy_optimizer >= 1
    /\ policy_and_target_update_period = 2

BonusOf(p) == get_bonus(p.bn_critic)
ProbeTarget(bonus_on) ==
    QTarget(bonus_on, probe.rewards, probe.terminals,
            Forward(target_qf1), Forward(target_qf2), BonusOf(probe))
\* the target the trainer computed, and the one it computes with the flag flipped
TargetWithBonus == IF use_bonus_critic THEN probe.q_target ELSE ProbeTarget(TRUE)
TargetWithoutBonus == IF use_bonus_critic THEN ProbeTarget(FALSE) ELSE probe.q_target

\* C2 as stated: enabling use_bonus_critic changes the target by exactly
\* beta * bonus, all else equal.
C2_Original ==
    probe.done =>
        TargetWithBonus = FAdd(TargetWithoutBonus, FMul(Fin(beta), BonusOf(probe)))

\* C2 amended: for a finite bonus, enabling use_bonus_critic changes the target by
\* (1 - terminal) * discount * beta * bonus.
C2_BonusIsDiscountedAndMasked ==
    (probe.done /\ IsFin(BonusOf(probe))) =>
        TargetWithBonus =
            FAdd(TargetWithoutBonus,
                 FMul(FMul(FMul(FSub(Fin(1), Fin(probe.terminals)), Fin(discount)),
                           Fin(beta)),
                      BonusOf(probe)))

\* a terminal transition with the bonus enabled and beta * bonus = 4
C2_Witness ==
    /\ probe.done /\ use_bonus_critic /\ ~use_log
    /\ probe.terminals = 1 /\ beta = 2 /\ probe.bn_critic = 2 /\ discount = 1

FutureValue ==
    LET min_q == FMin(Forward(target_qf1), Forward(target_qf2))
    IN IF use_bonus_critic THEN FAdd(min_q, FMul(Fin(beta), BonusOf(probe))) ELSE min_q

\* C3 as stated: with terminal = 1 the target is reward_scale * reward for any
\* target critic values, discount and bonus, bonus enabled or not.
C3_Original ==
    (probe.done /\ probe.terminals = 1) =>
        probe.q_target = FMul(Fin(reward_scale), Fin(probe.rewards))

\* C3 amended: with terminal = 1 the target is reward_scale * reward when the
\* future value (min target q, plus beta * bonus when enabled) is finite, and NaN
\* when it is not.
C3_TerminalDropsFiniteFuture ==
    (probe.done /\ probe.terminals = 1) =>
        IF IsFin(FutureValue)
        THEN probe.q_target = FMul(Fin(reward_scale), Fin(probe.rewards))
        ELSE probe.q_target = NaN

\* a terminal transition whose finite future value, bonus included, is not zero
C3_Witness ==
    /\ probe.done /\ probe.terminals = 1 /\ use_bonus_critic
    /\ IsFin(FutureValue) /\ FutureValue.val > 0 /\ discount > 0
    /\ probe.rewards = 1 /\ reward_scale = 2

\* C4: a train_from_torch call writes the eval statistics if and only if it is the
\* first one after construction or after the most recent end_epoch; every other
\* call leaves the mapping unchanged, and get_diagnostics never changes it.
C4_RefreshOncePerEpoch ==
    [][/\ IsTrainStep =>
            /\ (last'.written # {}) <=> fresh
            /\ ~fresh => eval_statistics' = eval_statistics
       /\ last'.op = "get_diagnostics" => eval_statistics' = eval_statistics]_vars

\* a call that wrote nothing and left an earlier refresh's statistics in place
C4_Witness ==
    /\ AfterTrainStep /\ last.written = {}
    /\ DOMAIN eval_statistics # {}
    /\ calls >= 2

\* C5: a call that refreshes the diagnostics completes and records 'Actor Bonus'
\* when use_bonus_policy is set, and 'Critic Bonus' when use_bonus_critic is set,
\* whether or not the delayed update fired in it.
C5_RefreshRecordsBonuses ==
    (AfterTrainStep /\ last.refreshed) =>
        /\ use_bonus_policy => (~last.raised /\ "Actor Bonus" \in last.written)
        /\ use_bonus_critic => (~last.raised /\ "Critic Bonus" \in last.written)

ExactlyOneSet(pair) == (pair[1] = None) # (pair[2] = None)

\* C6: construction with exactly one of mean and std set fails.
C6_HalfPairFails ==
    (phase # "new" /\ ExactlyOneSet(bonus_norm_param)) => phase = "raised"

\* C7: in a call where the delayed update fires, each target network is blended
\* from its live network's weights as they are after that network's optimizer
\* step of the same call.
C7_SoftUpdateReadsSteppedWeights ==
    [][(IsTrainStep /\ last'.fired) =>
         /\ Nets \subseteq last'.stepped
         /\ policy' = OptimizerStep(policy)
         /\ qf1' = OptimizerStep(qf1)
         /\ qf2' = OptimizerStep(qf2)
         /\ target_policy' = SoftUpdate(policy', target_policy)
         /\ target_qf1' = SoftUpdate(qf1', target_qf1)
         /\ target_qf2' = SoftUpdate(qf2', target_qf2)]_vars

\* with tau = 1 every target equals its live network right after a fired call
C7_Witness ==
    /\ AfterTrainStep /\ last.fired /\ tau = 2
    /\ qf1 >= 2 /\ target_qf1 = qf1 /\ target_qf2 = qf2
    /\ policy >= 1 /\ target_policy = policy

\* C8: a train_from_torch call either completes, with the critics stepped and the
\* counter incremented by one, or raises and leaves the networks, optimizers,
\* statistics, dirty flag and counter as they were.
C8_StepIsAtomic ==
    [][IsTrainStep =>
         IF last'.raised
         THEN UNCHANGED trainer
         ELSE /\ n_train_steps_total' = n_train_steps_total + 1
              /\ qf1_optimizer' = qf1_optimizer + 1
              /\ qf2_optimizer' = qf2_optimizer + 1]_vars

LossOf(net) ==
    IF net = "qf1" THEN "qf1_loss" ELSE IF net = "qf2" THEN "qf2_loss" ELSE "policy_loss"

\* C9: when an optimizer steps, the gradient buffer of its network holds the
\* gradient of its own loss of the current call and nothing else.
C9_StepSeesOwnLossOnly ==
    AfterTrainStep =>
        \A n \in last.stepped : last.at_step[n] = {<<LossOf(n), "cur">>}

\* a call off the period right after the actor's backward pass reached qf1
C9_Witness ==
    /\ AfterTrainStep /\ ~last.fired /\ calls >= 2 /\ policy_optimizer >= 1
    /\ "qf1" \in last.stepped
    /\ grad["qf1"] = {<<"qf1_loss", "cur">>}
    /\ <<"policy_loss", "old">> \in grad["policy"]

\* C10: with use_bonus_policy set, the 'Policy Loss' a refresh records is
\* -(qf1(obs, policy(obs)) + beta * bonus), whether or not the update fired.
C10_PolicyLossHasBonus ==
    (AfterTrainStep /\ last.refreshed /\ use_bonus_policy) =>
        eval_statistics["Policy Loss"] =
            FNeg(FAdd(Forward(qf1), FMul(Fin(beta), get_bonus(last.bn_actor))))

====
